---- MODULE Spec2Model ----
(***************************************************************************)
(* Store visibility sessions of hyeokjinjin/StoreVisualizer:               *)
(*   StoreVisibility     (src/StoreVisualizer.py)                          *)
(*   TrafficVisibility   (src/traffic_visibility.py)                       *)
(*   SidewalkVisibility  (src/sidewalk_visibility.py)                      *)
(*                                                                         *)
(* Geometry is exact integer geometry.  Geographic coordinates (EPSG:4326) *)
(* are integers <<lon, lat>>; the planar system (EPSG:3857) has the unit   *)
(* 0.1 m.  Obstacles are axis-parallel rectangles, features are polylines  *)
(* with axis-parallel legs.  Sample points are rationals i/n along a       *)
(* feature: the sightline tests are carried out with every planar          *)
(* coordinate multiplied by the denominator n ("scale n").                 *)
(***************************************************************************)
EXTENDS Integers, Sequences, FiniteSets, TLC

VARIABLES cls, store_latitude, store_longitude, gdf, obstacles,
          store_building, fetched, last

vars == <<cls, store_latitude, store_longitude, gdf, obstacles,
          store_building, fetched, last>>

----------------------------------------------------------------------------
(* Bounds of the model *)

\* the sample count handed to the samplers (the code's default is 50)
NumSamples == 4
\* the largest radius (planar units) handed to nearby_data
MaxRadius == 4

----------------------------------------------------------------------------
(* Program constants *)

\* to_crs("EPSG:3857"): planar units per geographic unit
ProjScale == 2
\* obs.buffer(0.1): 0.1 m in planar units
BufferTraffic == 1
\* obs.buffer(0.5): 0.5 m in planar units
BufferSidewalk == 5

----------------------------------------------------------------------------
(* Optional values: Python's None and a set value *)

None == <<>>
Some(v) == <<v>>
IsNone(o) == o = <<>>
Val(o) == o[1]

----------------------------------------------------------------------------
(* Arithmetic helpers *)

Min2(a, b) == IF a <= b THEN a ELSE b
Max2(a, b) == IF a >= b THEN a ELSE b
Sq(x) == x * x

RECURSIVE ISqrtR(_, _, _)
ISqrtR(n, lo, hi) ==
    IF lo >= hi THEN lo
    ELSE LET mid == (lo + hi + 1) \div 2
         IN  IF mid * mid <= n THEN ISqrtR(n, mid, hi) ELSE ISqrtR(n, lo, mid - 1)

\* floor of the square root
ISqrt(n) == ISqrtR(n, 0, Min2(n, 30000))

RECURSIVE SumSeq(_)
SumSeq(s) == IF s = <<>> THEN 0 ELSE Head(s) + SumSeq(Tail(s))

----------------------------------------------------------------------------
(* Projection and scaling *)

\* a geographic point in planar coordinates
ToPlanar(p) == <<ProjScale * p[1], ProjScale * p[2]>>
\* a planar point in geographic coordinates
ToGeographic(p) == <<p[1] \div ProjScale, p[2] \div ProjScale>>

LineToPlanar(line) == [k \in 1..Len(line) |-> ToPlanar(line[k])]
LineToGeographic(line) == [k \in 1..Len(line) |-> ToGeographic(line[k])]
RectToPlanar(rc) ==
    [x0 |-> ProjScale * rc.x0, y0 |-> ProjScale * rc.y0,
     x1 |-> ProjScale * rc.x1, y1 |-> ProjScale * rc.y1, r |-> ProjScale * rc.r]

\* a planar point or rectangle with every coordinate multiplied by n
ScalePt(p, n) == <<n * p[1], n * p[2]>>
ScaleRect(rc, n) ==
    [x0 |-> n * rc.x0, y0 |-> n * rc.y0, x1 |-> n * rc.x1, y1 |-> n * rc.y1,
     r |-> n * rc.r]

----------------------------------------------------------------------------
(* Shapely predicates on points, segments and (buffered) rectangles.       *)
(* A shape is a rectangle [x0,x1] x [y0,y1] grown by the radius r.         *)

Rect(x0, y0, x1, y1) == [x0 |-> x0, y0 |-> y0, x1 |-> x1, y1 |-> y1, r |-> 0]

Corners(g) == {<<g.x0, g.y0>>, <<g.x0, g.y1>>, <<g.x1, g.y0>>, <<g.x1, g.y1>>}

Cross(o, a, b) == (a[1] - o[1]) * (b[2] - o[2]) - (a[2] - o[2]) * (b[1] - o[1])
Dot(o, a, b) == (a[1] - o[1]) * (b[1] - o[1]) + (a[2] - o[2]) * (b[2] - o[2])
Dist2(a, b) == Sq(a[1] - b[1]) + Sq(a[2] - b[2])

\* the closed segment a-b meets the closed rectangle of g
SegMeetsRect(a, b, g) ==
    /\ Max2(a[1], b[1]) >= g.x0
    /\ Min2(a[1], b[1]) <= g.x1
    /\ Max2(a[2], b[2]) >= g.y0
    /\ Min2(a[2], b[2]) <= g.y1
    /\ ~(\A c \in Corners(g) : Cross(a, b, c) > 0)
    /\ ~(\A c \in Corners(g) : Cross(a, b, c) < 0)

\* the distance of point c to the segment a-b is at most d
PtSegWithin(c, a, b, d) ==
    LET len2 == Dist2(a, b)
        t    == Dot(a, b, c)
    IN  IF t <= 0 THEN Dist2(c, a) <= Sq(d)
        ELSE IF t >= len2 THEN Dist2(c, b) <= Sq(d)
        ELSE Sq(Cross(a, b, c)) <= Sq(d) * len2

\* the squared distance of point p to the rectangle of g
PtRectDist2(p, g) ==
    Sq(Max2(Max2(g.x0 - p[1], p[1] - g.x1), 0))
      + Sq(Max2(Max2(g.y0 - p[2], p[2] - g.y1), 0))

\* mutant of Buffer: the distance applied with the wrong sign (obs.buffer(-d))
Buffer_eroded(g, d) ==
    [g EXCEPT !.x0 = @ + d, !.y0 = @ + d, !.x1 = @ - d, !.y1 = @ - d]

\* obs.buffer(d)
Buffer(g, d) == [g EXCEPT !.r = @ + d]

\* LineString([a, b]).intersects(g)
Intersects(a, b, g) ==
    \/ SegMeetsRect(a, b, g)
    \/ \E c \in Corners(g) : PtSegWithin(c, a, b, g.r)
    \/ \E p \in {a, b} : PtRectDist2(p, g) <= Sq(g.r)

\* g.intersects(Point(p)) and g.contains(Point(p)) of an unbuffered polygon
PolyIntersectsPoint(g, p) ==
    g.x0 <= p[1] /\ p[1] <= g.x1 /\ g.y0 <= p[2] /\ p[2] <= g.y1
PolyContainsPoint(g, p) ==
    g.x0 < p[1] /\ p[1] < g.x1 /\ g.y0 < p[2] /\ p[2] < g.y1

----------------------------------------------------------------------------
(* Polylines *)

\* Euclidean distance, rounded down to the unit of the coordinates
Dist(a, b) == ISqrt(Dist2(a, b))

\* LineString.length
length(line) == SumSeq([k \in 1..(Len(line) - 1) |-> Dist(line[k], line[k + 1])])

RECURSIVE Walk(_, _, _, _)
\* the point at arc length d/n from the start of leg k, at scale n
Walk(line, k, d, n) ==
    LET a == line[k]
        b == line[k + 1]
        L == Dist(a, b)
    IN  IF k = Len(line) - 1 \/ d <= n * L
        THEN IF L = 0 THEN ScalePt(a, n)
             ELSE <<n * a[1] + ((b[1] - a[1]) * d) \div L,
                    n * a[2] + ((b[2] - a[2]) * d) \div L>>
        ELSE Walk(line, k + 1, d - n * L, n)

\* line.interpolate(i / n) without normalized=True: i / n taken as a distance
interpolate_absolute(line, i, n) == Walk(line, 1, i, n)

\* line.interpolate(i / n, normalized=True), at scale n
interpolate(line, i, n) == Walk(line, 1, i * length(line), n)

\* the distance of point c to the segment a-b is less than d
PtSegNearer(c, a, b, d) ==
    LET len2 == Dist2(a, b)
        t    == Dot(a, b, c)
    IN  IF t <= 0 THEN Dist2(c, a) < Sq(d)
        ELSE IF t >= len2 THEN Dist2(c, b) < Sq(d)
        ELSE Sq(Cross(a, b, c)) < Sq(d) * len2

\* mutant of DistanceWithin: the comparison is strict (distance < radius)
DistanceWithin_strict(line, p, radius) ==
    /\ radius > 0
    /\ \E k \in 1..(Len(line) - 1) : PtSegNearer(p, line[k], line[k + 1], radius)

\* the distance of the planar polyline to the planar point p is at most radius
DistanceWithin(line, p, radius) ==
    /\ radius >= 0
    /\ \E k \in 1..(Len(line) - 1) : PtSegWithin(p, line[k], line[k + 1], radius)

----------------------------------------------------------------------------
(* Visibility tests and samplers *)

\* TrafficVisibility.is_point_visible / StoreVisibility.is_point_visible:
\* storefront and sample point at scale n, obstacles planar at scale 1
is_point_visible(storefront_s, sample_point_s, obstacles_proj, n) ==
    ~\E k \in 1..Len(obstacles_proj) :
        Intersects(storefront_s, sample_point_s,
                   ScaleRect(Buffer(obstacles_proj[k], BufferTraffic), n))

RECURSIVE FirstPass(_, _, _, _, _)
\* the first loop of is_segment_visible from sample i on: the visible points
FirstPass(segment_proj, store_proj, obstacles_proj, n, i) ==
    IF i > n THEN <<>>
    ELSE LET sample_point == interpolate(segment_proj, i, n)
             blocking_obstacles ==
                 {k \in 1..Len(obstacles_proj) :
                     Intersects(ScalePt(store_proj, n), sample_point,
                                ScaleRect(Buffer(obstacles_proj[k], BufferSidewalk), n))}
             rest == FirstPass(segment_proj, store_proj, obstacles_proj, n, i + 1)
         IN  IF blocking_obstacles # {} THEN rest ELSE <<sample_point>> \o rest

RECURSIVE SecondPass(_, _, _, _, _)
\* the second loop of is_segment_visible from sample i on: the visible points
SecondPass(segment_proj, store_proj, obstacles_proj, n, i) ==
    IF i > n THEN <<>>
    ELSE LET sample_point == interpolate(segment_proj, i, n)
             rest == SecondPass(segment_proj, store_proj, obstacles_proj, n, i + 1)
         IN  IF ~\E k \in 1..Len(obstacles_proj) :
                    Intersects(ScalePt(store_proj, n), sample_point,
                               ScaleRect(obstacles_proj[k], n))
             THEN <<sample_point>> \o rest
             ELSE rest

\* LineString(points): a line needs at least two points
LineString(points) ==
    IF Len(points) < 2
    THEN [kind |-> "Error", points |-> <<>>]
    ELSE [kind |-> "LineString", points |-> points]

\* mutant of is_segment_visible: the early return after the first pass is
\* missing, so the second pass always runs and appends to visible_points
is_segment_visible_mixed(segment, store_location, obs, n) ==
    LET store_proj     == ToPlanar(store_location)
        obstacles_proj == [k \in 1..Len(obs.geometry) |-> RectToPlanar(obs.geometry[k])]
        segment_proj   == LineToPlanar(segment)
        vp2 == FirstPass(segment_proj, store_proj, obstacles_proj, n, 0)
                 \o SecondPass(segment_proj, store_proj, obstacles_proj, n, 0)
    IN  IF Len(vp2) > 0
        THEN [ret |-> LineString(vp2), visible_points |-> vp2, second_pass |-> TRUE]
        ELSE [ret |-> [kind |-> "None", points |-> <<>>], visible_points |-> vp2,
              second_pass |-> TRUE]

\* SidewalkVisibility.is_segment_visible; the result carries the local
\* visible_points and whether the second pass ran
is_segment_visible(segment, store_location, obs, n) ==
    IF ~obs.hasGeometry
    THEN [ret |-> [kind |-> "Error", points |-> <<>>], visible_points |-> <<>>,
          second_pass |-> FALSE]
    ELSE
    LET store_proj     == ToPlanar(store_location)
        obstacles_proj == [k \in 1..Len(obs.geometry) |-> RectToPlanar(obs.geometry[k])]
        segment_proj   == LineToPlanar(segment)
        vp1 == FirstPass(segment_proj, store_proj, obstacles_proj, n, 0)
        vp2 == vp1 \o SecondPass(segment_proj, store_proj, obstacles_proj, n, 0)
    IN  IF Len(vp1) > 0
        THEN [ret |-> LineString(vp1), visible_points |-> vp1, second_pass |-> FALSE]
        ELSE IF Len(vp2) > 0
        THEN [ret |-> LineString(vp2), visible_points |-> vp2, second_pass |-> TRUE]
        ELSE [ret |-> [kind |-> "None", points |-> <<>>], visible_points |-> vp2,
              second_pass |-> TRUE]

----------------------------------------------------------------------------
(* Inputs: the places, buildings, roads and files the sessions are run on  *)
(* (geographic coordinates)                                                *)

\* geocoder results / constructor arguments <<lon, lat>>; SiteZ lies on the
\* prime meridian (longitude 0)
SiteA == <<1, 1>>
SiteC == <<6, 1>>
SiteZ == <<0, 3>>
\* the planar origin: latitude 0, longitude 0
SiteO == <<0, 0>>
StoreSites == {SiteA, SiteC, SiteZ, SiteO}
\* the answers of the geocoder: an address that is not found, or a site
GeocoderAnswers == {None, Some(SiteA), Some(SiteC)}

\* building footprints
BldWest   == Rect(3, 1, 4, 3)
BldNorth  == Rect(5, 6, 6, 7)
BldMid    == Rect(5, 4, 6, 5)
BldEast   == Rect(6, 5, 7, 7)
BldOwnA   == Rect(0, 0, 2, 2)      \* SiteA strictly inside
BldEdgeA  == Rect(1, 1, 2, 3)      \* SiteA on its corner
BldOwnC   == Rect(5, 0, 7, 2)      \* SiteC strictly inside
BldBlockC == Rect(4, 0, 8, 3)      \* SiteC strictly inside, too
\* a square of side 4 centred 2 north of SiteO
BldSquare == Rect(-2, 0, 2, 4)

\* ox.features_from_point(...).explode(...).reset_index(...): what a fetch returns
RawFetches ==
    { <<BldWest>>,
      <<BldOwnA, BldMid>>,
      <<BldEdgeA, BldNorth>>,
      <<BldOwnC, BldBlockC, BldEast>>,
      <<BldOwnA>>,
      <<BldSquare>> }

\* road and sidewalk centre lines
RoadStub  == << <<5, 5>>, <<5, 6>> >>
RoadLong  == << <<11, 0>>, <<11, 12>> >>
RoadMid   == << <<8, 1>>, <<8, 8>> >>
RoadBent  == << <<4, 10>>, <<7, 10>>, <<7, 6>> >>
RoadNear  == << <<3, 0>>, <<3, 4>> >>
RoadThru  == << <<0, 1>>, <<2, 1>> >>
\* a side road that starts where RoadStub ends
RoadSide  == << <<5, 6>>, <<6, 6>> >>
\* east-west lines 8 north and 8 south of SiteO
RoadNorth == << <<-2, 8>>, <<2, 8>> >>
RoadSouth == << <<-2, -8>>, <<2, -8>> >>

\* the segments handed to the samplers
SegmentInputs ==
    { <<>>, <<RoadStub>>, <<RoadLong, RoadStub>>, <<RoadMid, RoadBent, RoadBent>>,
      <<RoadNorth, RoadSouth>> }
\* the sample counts handed to filter_visible_segments
SampleCounts == {0, 1, NumSamples}
StreetSegments == {RoadStub, RoadLong, RoadMid, RoadBent, RoadNorth, RoadSouth}

\* the number num/den, den > 0: a value of a float column or a float result
Q(num, den) == <<num, den>>

\* a CSV row; trips_sample_count is a number Q(num, den)
Row(id, st, g, vol, cnt) ==
    [id |-> id, state_code |-> st, geometry |-> g, trips_volume |-> vol,
     trips_sample_count |-> cnt]

\* the CSV files: their columns and rows
CsvFull ==
    [columns |-> {"geom", "state_code", "trips_volume", "trips_sample_count"},
     rows |-> << Row(0, "NY", RoadNear, 14, Q(0, 1)), Row(1, "NJ", RoadMid, 6, Q(2, 1)),
                 Row(2, "NY", RoadThru, 4, Q(3, 1)),
                 Row(3, "NY", RoadLong, 9, Q(1, 2000000)),
                 Row(4, "NY", RoadStub, 3, Q(1, 1)),
                 Row(5, "NY", RoadSide, 5, Q(2, 1)) >>]
CsvNoTrips ==
    [columns |-> {"geom", "state_code"},
     rows |-> << Row(0, "NY", RoadStub, 0, Q(0, 1)), Row(1, "NY", RoadNear, 0, Q(0, 1)) >>]
CsvNoGeom ==
    [columns |-> {"state_code", "trips_volume", "trips_sample_count"},
     rows |-> << Row(0, "NY", RoadStub, 1, Q(1, 1)) >>]
CsvFiles == {CsvFull, CsvNoTrips, CsvNoGeom}
States == {"NY", "CA"}

Classes == {"StoreVisibility", "TrafficVisibility", "SidewalkVisibility"}

\* gpd.GeoDataFrame(): a frame without a geometry column
EmptyFrame == [hasGeometry |-> FALSE, geometry |-> <<>>]
Frame(geoms) == [hasGeometry |-> TRUE, geometry |-> geoms]

----------------------------------------------------------------------------
(* Construction *)

Init ==
    /\ cls \in Classes
    /\ \/ /\ cls = "StoreVisibility"
          /\ store_latitude = None
          /\ store_longitude = None
       \/ /\ cls # "StoreVisibility"
          /\ \E site \in StoreSites :
                /\ store_latitude = Some(site[2])
                /\ store_longitude = Some(site[1])
    /\ gdf = None
    /\ obstacles = EmptyFrame
    /\ store_building = EmptyFrame
    /\ fetched = None
    /\ last = [op |-> "__init__", err |-> ""]

----------------------------------------------------------------------------
(* Operations *)

\* StoreVisibility.get_coordinates; location is the geocoder's answer
get_coordinates(location) ==
    /\ cls = "StoreVisibility"
    /\ IF ~IsNone(location)
       THEN /\ store_latitude' = Some(Val(location)[2])
            /\ store_longitude' = Some(Val(location)[1])
            /\ last' = [op |-> "get_coordinates", err |-> "",
                        ret |-> <<Val(location)[2], Val(location)[1]>>]
       ELSE /\ UNCHANGED <<store_latitude, store_longitude>>
            /\ last' = [op |-> "get_coordinates", err |-> "ValueError"]
    /\ UNCHANGED <<cls, gdf, obstacles, store_building, fetched>>

\* Python's "not x" of an optional number
Falsy(o) == IsNone(o) \/ Val(o) = 0

\* the rows of raw that the mask leaves: self.obstacles[~store_building_mask]
Unmasked(raw, store_point) ==
    LET keep(g) == ~PolyIntersectsPoint(g, store_point)
    IN  SelectSeq(raw, keep)

\* self.obstacles[self.obstacles.geometry.contains(store_point)]
Containing(raw, store_point) ==
    LET has(g) == PolyContainsPoint(g, store_point)
    IN  SelectSeq(raw, has)

\* TrafficVisibility.fetch_obstacles and SidewalkVisibility.fetch_obstacles
fetch_obstacles(raw) ==
    /\ cls \in {"TrafficVisibility", "SidewalkVisibility"}
    /\ IF Falsy(store_latitude) \/ Falsy(store_longitude)
       THEN /\ UNCHANGED <<obstacles, store_building, fetched>>
            /\ last' = [op |-> "fetch_obstacles", err |-> "ValueError"]
       ELSE LET store_point == <<Val(store_longitude), Val(store_latitude)>>
            IN  /\ store_building' = Frame(Containing(raw, store_point))
                /\ obstacles' = Frame(Unmasked(raw, store_point))
                /\ fetched' = Some([raw |-> raw, store_point |-> store_point])
                /\ last' = [op |-> "fetch_obstacles", err |-> ""]
    /\ UNCHANGED <<cls, store_latitude, store_longitude, gdf>>

\* StoreVisibility.fetch_obstacles: the session keeps no store building
fetch_obstacles_Store(raw) ==
    /\ cls = "StoreVisibility"
    /\ IF Falsy(store_latitude) \/ Falsy(store_longitude)
       THEN /\ UNCHANGED <<obstacles, fetched>>
            /\ last' = [op |-> "fetch_obstacles", err |-> "ValueError"]
       ELSE LET store_point == <<Val(store_longitude), Val(store_latitude)>>
            IN  /\ obstacles' = Frame(Unmasked(raw, store_point))
                /\ fetched' = Some([raw |-> raw, store_point |-> store_point])
                /\ last' = [op |-> "fetch_obstacles", err |-> ""]
    /\ UNCHANGED <<cls, store_latitude, store_longitude, gdf, store_building>>

\* the frame read_data builds: the rows of the target state, "geom" parsed
\* into the geometry column
LoadedFrame(csv, target_state) ==
    LET inState(row) == row.state_code = target_state
    IN  [columns |-> (csv.columns \ {"geom"}) \cup {"geometry"},
         rows |-> SelectSeq(csv.rows, inState)]

\* StoreVisibility.read_data
read_data_Store(csv, target_state) ==
    /\ cls = "StoreVisibility"
    /\ IF "state_code" \notin csv.columns \/ "geom" \notin csv.columns
       THEN /\ UNCHANGED gdf
            /\ last' = [op |-> "read_data", err |-> "ValueError"]
       ELSE IF LoadedFrame(csv, target_state).rows = <<>>
       THEN /\ UNCHANGED gdf
            /\ last' = [op |-> "read_data", err |-> "", ret |-> None]
       ELSE /\ gdf' = Some(LoadedFrame(csv, target_state))
            /\ last' = [op |-> "read_data", err |-> "",
                        ret |-> Some(LoadedFrame(csv, target_state))]
    /\ UNCHANGED <<cls, store_latitude, store_longitude, obstacles, store_building,
                   fetched>>

\* a read_data that assigns self.gdf before it looks at the rows: a read that
\* finds no row of the state clears the dataset
read_data_Traffic_clear(csv, target_state) ==
    /\ cls = "TrafficVisibility"
    /\ IF "geom" \notin csv.columns \/ "state_code" \notin csv.columns
       THEN /\ UNCHANGED gdf
            /\ last' = [op |-> "read_data", err |-> "ValueError"]
       ELSE IF LoadedFrame(csv, target_state).rows = <<>>
       THEN /\ gdf' = None
            /\ last' = [op |-> "read_data", err |-> "ValueError"]
       ELSE /\ gdf' = Some(LoadedFrame(csv, target_state))
            /\ last' = [op |-> "read_data", err |-> "", ret |-> None]
    /\ UNCHANGED <<cls, store_latitude, store_longitude, obstacles, store_building,
                   fetched>>

\* TrafficVisibility.read_data
read_data_Traffic(csv, target_state) ==
    /\ cls = "TrafficVisibility"
    /\ IF "geom" \notin csv.columns \/ "state_code" \notin csv.columns
       THEN /\ UNCHANGED gdf
            /\ last' = [op |-> "read_data", err |-> "ValueError"]
       ELSE IF LoadedFrame(csv, target_state).rows = <<>>
       THEN /\ UNCHANGED gdf
            /\ last' = [op |-> "read_data", err |-> "ValueError"]
       ELSE /\ gdf' = Some(LoadedFrame(csv, target_state))
            /\ last' = [op |-> "read_data", err |-> "", ret |-> None]
    /\ UNCHANGED <<cls, store_latitude, store_longitude, obstacles, store_building,
                   fetched>>

\* gdf_3857[gdf_3857.geometry.distance(store_location) <= radius].to_crs(4326)
NearbySegments(frame, store_location, radius) ==
    LET near(row) == DistanceWithin(LineToPlanar(row.geometry), store_location, radius)
        kept == SelectSeq(frame.rows, near)
    IN  [k \in 1..Len(kept) |->
            [kept[k] EXCEPT !.geometry = LineToGeographic(LineToPlanar(@))]]

\* StoreVisibility.nearby_data and TrafficVisibility.nearby_data
nearby_data(radius) ==
    /\ cls \in {"StoreVisibility", "TrafficVisibility"}
    /\ IF IsNone(store_latitude) \/ IsNone(store_longitude) \/ IsNone(gdf)
       THEN last' = [op |-> "nearby_data", err |-> "ValueError", radius |-> radius]
       ELSE last' = [op |-> "nearby_data", err |-> "", radius |-> radius,
                     ret |-> NearbySegments(Val(gdf),
                                 ToPlanar(<<Val(store_longitude), Val(store_latitude)>>),
                                 radius)]
    /\ UNCHANGED <<cls, store_latitude, store_longitude, gdf, obstacles,
                   store_building, fetched>>

\* obstacles.to_crs(projected_crs)
ObstaclesProj(obs) == [k \in 1..Len(obs.geometry) |-> RectToPlanar(obs.geometry[k])]

\* the inner loop of TrafficVisibility.filter_visible_segments for one segment:
\* "visible", "hidden" or the error raised
ScanSegment_Traffic(seg, storefront_proj, obstacles_proj, num_samples) ==
    IF num_samples = 0 THEN "ZeroDivisionError"
    ELSE IF \E i \in 0..num_samples :
               is_point_visible(ScalePt(storefront_proj, num_samples),
                                interpolate(seg, i, num_samples),
                                obstacles_proj, num_samples)
    THEN "visible"
    ELSE "hidden"

\* the two loops of StoreVisibility.filter_visible_segments for one segment
ScanSegment_Store(seg, storefront_proj, obstacles_proj, num_samples) ==
    IF \E point \in {seg[1], seg[Len(seg)]} :
           is_point_visible(storefront_proj, point, obstacles_proj, 1)
    THEN "visible"
    ELSE IF num_samples = 1 THEN "ZeroDivisionError"
    ELSE IF \E i \in 0..(num_samples - 1) :
               is_point_visible(ScalePt(storefront_proj, num_samples - 1),
                                interpolate(seg, i, num_samples - 1),
                                obstacles_proj, num_samples - 1)
    THEN "visible"
    ELSE "hidden"

RECURSIVE CollectVisible_twice(_, _)
\* the outer loop when a visible segment is appended without ending its scan:
\* it enters visible_segments a second time
CollectVisible_twice(segs, verdicts) ==
    IF segs = <<>> THEN [err |-> "", visible_segments |-> <<>>]
    ELSE IF Head(verdicts) \notin {"visible", "hidden"}
    THEN [err |-> Head(verdicts), visible_segments |-> <<>>]
    ELSE LET rest == CollectVisible_twice(Tail(segs), Tail(verdicts))
         IN  IF rest.err # "" THEN rest
             ELSE IF Head(verdicts) = "visible"
             THEN [rest EXCEPT !.visible_segments = <<Head(segs), Head(segs)>> \o @]
             ELSE rest

RECURSIVE CollectVisible(_, _)
\* the outer loop: the segments appended to visible_segments, or the error
\* that ended the loop; verdicts[k] is the scan result of segs[k]
CollectVisible(segs, verdicts) ==
    IF segs = <<>> THEN [err |-> "", visible_segments |-> <<>>]
    ELSE IF Head(verdicts) \notin {"visible", "hidden"}
    THEN [err |-> Head(verdicts), visible_segments |-> <<>>]
    ELSE LET rest == CollectVisible(Tail(segs), Tail(verdicts))
         IN  IF rest.err # "" THEN rest
             ELSE IF Head(verdicts) = "visible"
             THEN [rest EXCEPT !.visible_segments = <<Head(segs)>> \o @]
             ELSE rest

\* TrafficVisibility.filter_visible_segments as a function of its arguments
FilterVisible_Traffic(nearby_segments, storefront, obs, num_samples) ==
    IF ~obs.hasGeometry THEN [err |-> "AttributeError", ret |-> <<>>]
    ELSE LET storefront_proj == ToPlanar(storefront)
             obstacles_proj  == ObstaclesProj(obs)
             nearby_proj == [k \in 1..Len(nearby_segments) |->
                                LineToPlanar(nearby_segments[k])]
             verdicts == [k \in 1..Len(nearby_proj) |->
                            ScanSegment_Traffic(nearby_proj[k], storefront_proj,
                                                obstacles_proj, num_samples)]
             found == CollectVisible(nearby_proj, verdicts)
         IN  [err |-> found.err,
              ret |-> [k \in 1..Len(found.visible_segments) |->
                          LineToGeographic(found.visible_segments[k])]]

\* StoreVisibility.filter_visible_segments as a function of its arguments
FilterVisible_Store(nearby_segments, storefront, obs, num_samples) ==
    IF ~obs.hasGeometry THEN [err |-> "AttributeError", ret |-> <<>>]
    ELSE LET storefront_proj == ToPlanar(storefront)
             obstacles_proj  == ObstaclesProj(obs)
             nearby_proj == [k \in 1..Len(nearby_segments) |->
                                LineToPlanar(nearby_segments[k])]
             verdicts == [k \in 1..Len(nearby_proj) |->
                            ScanSegment_Store(nearby_proj[k], storefront_proj,
                                              obstacles_proj, num_samples)]
             found == CollectVisible(nearby_proj, verdicts)
         IN  [err |-> found.err,
              ret |-> [k \in 1..Len(found.visible_segments) |->
                          LineToGeographic(found.visible_segments[k])]]

\* a call filter_visible_segments(nearby, Point(lon, lat), self.obstacles, n)
\* on a TrafficVisibility session
filter_visible_segments_Traffic(nearby_segments, num_samples) ==
    /\ cls = "TrafficVisibility"
    /\ LET r == FilterVisible_Traffic(nearby_segments,
                    <<Val(store_longitude), Val(store_latitude)>>, obstacles, num_samples)
       IN  last' = [op |-> "filter_visible_segments", err |-> r.err, ret |-> r.ret,
                    nearby_segments |-> nearby_segments, num_samples |-> num_samples]
    /\ UNCHANGED <<cls, store_latitude, store_longitude, gdf, obstacles,
                   store_building, fetched>>

\* the same call on a StoreVisibility session (StoreVisualizer.py, __main__)
filter_visible_segments_Store(nearby_segments, num_samples) ==
    /\ cls = "StoreVisibility"
    /\ ~IsNone(store_latitude)
    /\ LET r == FilterVisible_Store(nearby_segments,
                    <<Val(store_longitude), Val(store_latitude)>>, obstacles, num_samples)
       IN  last' = [op |-> "filter_visible_segments", err |-> r.err, ret |-> r.ret,
                    nearby_segments |-> nearby_segments, num_samples |-> num_samples]
    /\ UNCHANGED <<cls, store_latitude, store_longitude, gdf, obstacles,
                   store_building, fetched>>

\* a call is_segment_visible(segment, Point(lon, lat)) on a SidewalkVisibility
\* session
is_segment_visible_call(segment) ==
    /\ cls = "SidewalkVisibility"
    /\ LET r == is_segment_visible(segment,
                    <<Val(store_longitude), Val(store_latitude)>>, obstacles, NumSamples)
       IN  last' = [op |-> "is_segment_visible", segment |-> segment,
                    err |-> IF ~obstacles.hasGeometry THEN "AttributeError"
                            ELSE IF r.ret.kind = "Error" THEN "GEOSException" ELSE "",
                    ret |-> r.ret, visible_points |-> r.visible_points,
                    second_pass |-> r.second_pass]
    /\ UNCHANGED <<cls, store_latitude, store_longitude, gdf, obstacles,
                   store_building, fetched>>

----------------------------------------------------------------------------
(* Traffic weighing *)

RECURSIVE GCD(_, _)
GCD(a, b) == IF b = 0 THEN a ELSE GCD(b, a % b)

\* a number num/den in lowest terms, den > 0
Reduce(num, den) ==
    LET g == GCD(IF num < 0 THEN -num ELSE num, IF den < 0 THEN -den ELSE den)
        sgn == IF den < 0 THEN -1 ELSE 1
    IN  Q((sgn * num) \div g, (sgn * den) \div g)

QAdd(x, y) == Reduce(x[1] * y[2] + y[1] * x[2], x[2] * y[2])
QLess(x, y) == x[1] * y[2] < y[1] * x[2]

\* the value that replaces a sample count of 0
Epsilon == Q(1, 1000000)

\* the larger of a sample count and 1e-6
Replace0_max(cnt) == IF QLess(cnt, Epsilon) THEN Epsilon ELSE cnt

\* Series.replace(0, 1e-6) on one value
Replace0(cnt) == IF cnt[1] = 0 THEN Epsilon ELSE cnt

\* (trips_volume / trips_sample_count) * 1.4 of one matched row
car_traffic(trips_volume, trips_sample_count) ==
    Reduce(trips_volume * 7 * trips_sample_count[2], 5 * trips_sample_count[1])

\* two axis-parallel legs meet
LegsMeet(a, b, c, d) ==
    /\ Max2(Min2(a[1], b[1]), Min2(c[1], d[1])) <= Min2(Max2(a[1], b[1]), Max2(c[1], d[1]))
    /\ Max2(Min2(a[2], b[2]), Min2(c[2], d[2])) <= Min2(Max2(a[2], b[2]), Max2(c[2], d[2]))

\* the predicate "intersects" of two lines
LinesIntersect(l, m) ==
    \E i \in 1..(Len(l) - 1), j \in 1..(Len(m) - 1) :
        LegsMeet(l[i], l[i + 1], m[j], m[j + 1])

\* a join that keeps a row of the dataset once, however many visible segments
\* it intersects
JoinRow_once(row, segs) ==
    IF \E j \in 1..Len(segs) : LinesIntersect(row.geometry, segs[j])
    THEN <<row>> ELSE <<>>

RECURSIVE JoinRow(_, _)
\* the rows gpd.sjoin gives for one row of the dataset: one per intersecting
\* visible segment
JoinRow(row, segs) ==
    IF segs = <<>> THEN <<>>
    ELSE (IF LinesIntersect(row.geometry, Head(segs)) THEN <<row>> ELSE <<>>)
             \o JoinRow(row, Tail(segs))

RECURSIVE sjoin(_, _)
\* gpd.sjoin(self.gdf, visible_segments, predicate="intersects", how="inner")
sjoin(rows, segs) ==
    IF rows = <<>> THEN <<>>
    ELSE JoinRow(Head(rows), segs) \o sjoin(Tail(rows), segs)

RECURSIVE SumTraffic(_)
\* matched_segments["car_traffic"].sum() after the replacement of 0 counts
SumTraffic(matched) ==
    IF matched = <<>> THEN Q(0, 1)
    ELSE QAdd(car_traffic(Head(matched).trips_volume,
                          Replace0(Head(matched).trips_sample_count)),
              SumTraffic(Tail(matched)))

\* the frames handed to calculate_car_traffic: None or a frame of lines
VisibleInputs ==
    {None} \cup {Some(segs) : segs \in SegmentInputs \cup {<<RoadNear, RoadThru>>,
                                                            <<RoadStub, RoadStub>>}}

\* StoreVisibility.calculate_car_traffic and TrafficVisibility.calculate_car_traffic
calculate_car_traffic(visible_segments) ==
    /\ cls \in {"StoreVisibility", "TrafficVisibility"}
    /\ LET call == [op |-> "calculate_car_traffic", visible_segments |-> visible_segments]
       IN  IF IsNone(visible_segments) \/ Val(visible_segments) = <<>>
           THEN last' = call @@ [err |-> "", ret |-> Q(0, 1), matched |-> <<>>]
           ELSE IF IsNone(gdf)
           THEN last' = call @@ [err |-> "AttributeError"]
           ELSE IF "trips_volume" \notin Val(gdf).columns
                   \/ "trips_sample_count" \notin Val(gdf).columns
           THEN last' = call @@ [err |-> "ValueError"]
           ELSE LET matched_segments == sjoin(Val(gdf).rows, Val(visible_segments))
                IN  last' = call @@ [err |-> "", ret |-> SumTraffic(matched_segments),
                                     matched |-> matched_segments]
    /\ UNCHANGED <<cls, store_latitude, store_longitude, gdf, obstacles,
                   store_building, fetched>>

----------------------------------------------------------------------------
(* Pedestrian weighing *)

\* what the Overpass request of fetch_pedestrian_density meets: a response
\* (status code, the number of "elements" or None when the key is absent),
\* or an exception of requests.get / response.json
Response(status_code, elements) ==
    [raised |-> FALSE, status_code |-> status_code, elements |-> elements]
Raised == [raised |-> TRUE, status_code |-> 0, elements |-> None]

\* SidewalkVisibility.fetch_pedestrian_density on a response
fetch_pedestrian_density(response) ==
    IF response.status_code = 200
    THEN IF IsNone(response.elements) THEN 0 ELSE Val(response.elements)
    ELSE 0

\* the answers met by the successive density lookups of one scoring call
DensityScripts ==
    { << Response(200, Some(3)), Response(200, Some(3)) >>,
      << Response(200, Some(1)), Response(200, Some(3)) >>,
      << Response(429, None), Response(200, Some(3)) >>,
      << Response(200, None), Response(500, None) >>,
      << Response(200, Some(3)), Raised >>,
      << Raised, Response(200, Some(1)) >> }

\* what fetch_street_segments returns: None for a failed request (a frame
\* without rows or columns), or the ways found
StreetFetches ==
    { None, Some(<<>>), Some(<<RoadStub>>), Some(<<RoadLong, RoadBent>>),
      Some(<<RoadMid>>) }

RECURSIVE ScoreLoop(_, _, _, _)
\* the loop of calculate_visibility_score; found[j] is what is_segment_visible
\* gives for the j-th segment, script[k] what the k-th density lookup meets.
\* The result: the error that ended the loop, the visible sub-geometries, the
\* densities used, the points the density was asked for, and
\* n * 1000 * total_visibility_score (planar unit 0.1 m, sample coordinates at
\* scale n)
ScoreLoop(found, store_location, script, k) ==
    IF found = <<>>
    THEN [err |-> "", visible_segments |-> <<>>, densities |-> <<>>,
          queries |-> <<>>, total |-> 0]
    ELSE LET visible_segment == Head(found)
         IN  IF visible_segment.kind = "Error"
             THEN [err |-> "GEOSException", visible_segments |-> <<>>,
                   densities |-> <<>>, queries |-> <<>>, total |-> 0]
             ELSE IF visible_segment.kind = "None"
             THEN ScoreLoop(Tail(found), store_location, script, k)
             ELSE IF script[k].raised
             THEN [err |-> "RequestException", visible_segments |-> <<>>,
                   densities |-> <<>>, queries |-> <<>>, total |-> 0]
             ELSE LET pedestrian_density == fetch_pedestrian_density(script[k])
                      segment_length == length(visible_segment.points)
                      rest == ScoreLoop(Tail(found), store_location, script, k + 1)
                  IN  IF rest.err # "" THEN rest
                      ELSE [err |-> "",
                            visible_segments |-> <<visible_segment.points>>
                                                    \o rest.visible_segments,
                            densities |-> <<pedestrian_density>> \o rest.densities,
                            queries |-> <<store_location>> \o rest.queries,
                            total |-> segment_length * pedestrian_density * 10
                                         + rest.total]

\* round(x, 1): x rounded to its tenths, in hundredths
Round2_tenths(total, n) == {10 * ((total + 50 * n) \div (100 * n))}

\* round(x, 2) for x = total / (1000 n): the hundredths nearest to x; a tie
\* falls to either side, as the binary value of x decides
Round2(total, n) ==
    LET den == 10 * n
        low == total \div den
    IN  {r \in {low, low + 1} :
            2 * (IF r * den >= total THEN r * den - total ELSE total - r * den) <= den}

RECURSIVE ScanAll(_, _, _)
\* what is_segment_visible returns for each of the segments, in order
ScanAll(segs, store_location, blocking) ==
    IF segs = <<>> THEN <<>>
    ELSE <<is_segment_visible(Head(segs), store_location, blocking, NumSamples).ret>>
            \o ScanAll(Tail(segs), store_location, blocking)

\* the calls of fetch_obstacles, fetch_street_segments and is_segment_visible
\* in calculate_visibility_score; raw and streets are what the building fetch
\* and the sidewalk fetch answer
ScoreScan(raw, streets) ==
    LET store_location == <<Val(store_longitude), Val(store_latitude)>>
        blocking == Frame(Unmasked(raw, store_location))
        segs == IF IsNone(streets) THEN <<>> ELSE Val(streets)
    IN  [store_location |-> store_location,
         store_building |-> Frame(Containing(raw, store_location)),
         obstacles |-> blocking,
         found |-> ScanAll(segs, store_location, blocking)]

\* the rest of calculate_visibility_score, after the scan; script is what the
\* density lookups meet
ScoreResult(raw, scan, script) ==
    /\ store_building' = scan.store_building
    /\ obstacles' = scan.obstacles
    /\ fetched' = Some([raw |-> raw, store_point |-> scan.store_location])
    /\ LET call == [op |-> "calculate_visibility_score", script |-> script]
       IN  IF scan.found = <<>>
           THEN last' = call @@ [err |-> "", ret |-> Q(0, 1), total |-> Q(0, 1),
                                 visible_segments |-> <<>>, densities |-> <<>>,
                                 queries |-> <<>>]
           ELSE LET r == ScoreLoop(scan.found, scan.store_location, script, 1)
                IN  IF r.err # ""
                    THEN last' = call @@ [err |-> r.err]
                    ELSE \E hundredths \in Round2(r.total, NumSamples) :
                            last' = call @@
                                [err |-> "", ret |-> Reduce(hundredths, 100),
                                 total |-> Reduce(r.total, 1000 * NumSamples),
                                 visible_segments |-> r.visible_segments,
                                 densities |-> r.densities, queries |-> r.queries]

\* SidewalkVisibility.calculate_visibility_score
calculate_visibility_score ==
    /\ cls = "SidewalkVisibility"
    /\ IF Falsy(store_latitude) \/ Falsy(store_longitude)
       THEN /\ UNCHANGED <<obstacles, store_building, fetched>>
            /\ last' = [op |-> "calculate_visibility_score", err |-> "ValueError"]
       ELSE \E raw \in RawFetches, streets \in StreetFetches :
               \E scan \in {ScoreScan(raw, streets)}, script \in DensityScripts :
                   ScoreResult(raw, scan, script)
    /\ UNCHANGED <<cls, store_latitude, store_longitude, gdf>>

----------------------------------------------------------------------------
(* The sessions *)

Next ==
    \/ \E location \in GeocoderAnswers : get_coordinates(location)
    \/ \E raw \in RawFetches : fetch_obstacles(raw)
    \/ \E raw \in RawFetches : fetch_obstacles_Store(raw)
    \/ \E csv \in CsvFiles, target_state \in States : read_data_Store(csv, target_state)
    \/ \E csv \in CsvFiles, target_state \in States : read_data_Traffic(csv, target_state)
    \/ \E radius \in (-1)..MaxRadius : nearby_data(radius)
    \/ \E nearby_segments \in SegmentInputs, num_samples \in SampleCounts :
          filter_visible_segments_Traffic(nearby_segments, num_samples)
    \/ \E nearby_segments \in SegmentInputs, num_samples \in SampleCounts :
          filter_visible_segments_Store(nearby_segments, num_samples)
    \/ \E segment \in StreetSegments : is_segment_visible_call(segment)
    \/ \E visible_segments \in VisibleInputs : calculate_car_traffic(visible_segments)
    \/ calculate_visibility_score

Spec == Init /\ [][Next]_vars

----------------------------------------------------------------------------
(* Properties of SidewalkVisibility.is_segment_visible.  They are stated   *)
(* on the state a call leaves: last holds the call, the session variables  *)
(* hold the store and the blocking set the call read.                      *)

StorePoint == <<Val(store_longitude), Val(store_latitude)>>

\* the sample at parameter i/n of the segment, at scale n
SampleAtN(segment, i, n) == interpolate(LineToPlanar(segment), i, n)
SampleAt(segment, i) == SampleAtN(segment, i, NumSamples)

\* the sightline from the store to the sample at i/n meets a blocking obstacle
\* grown by tol
SightlineBlockedN(segment, i, n, tol) ==
    \E g \in {obstacles.geometry[k] : k \in 1..Len(obstacles.geometry)} :
        Intersects(ScalePt(ToPlanar(StorePoint), n), SampleAtN(segment, i, n),
                   ScaleRect(Buffer(RectToPlanar(g), tol), n))
SightlineBlocked(segment, i, tol) == SightlineBlockedN(segment, i, NumSamples, tol)

StrictVisible(segment) ==
    {i \in 0..NumSamples : ~SightlineBlocked(segment, i, BufferSidewalk)}
RelaxedVisible(segment) ==
    {i \in 0..NumSamples : ~SightlineBlocked(segment, i, 0)}

Range(seq) == {seq[k] : k \in 1..Len(seq)}

SamplerReturned == last.op = "is_segment_visible" /\ obstacles.hasGeometry

\* C1: the visible sample points of is_segment_visible are those of the strict
\* pass when it finds any, and otherwise those of the relaxed pass; the relaxed
\* pass runs only when the strict pass found none, and the two are never mixed.
C1_StrictElseRelaxed ==
    SamplerReturned =>
        LET strict  == StrictVisible(last.segment)
            relaxed == RelaxedVisible(last.segment)
            chosen  == IF strict # {} THEN strict ELSE relaxed
        IN  /\ Range(last.visible_points) = {SampleAt(last.segment, i) : i \in chosen}
            /\ Len(last.visible_points) = Cardinality(chosen)
            /\ last.second_pass <=> (strict = {})

\* C1 witness: a call whose strict pass found nothing and whose relaxed pass
\* recovered some, but not all, of the samples
C1_Witness ==
    /\ SamplerReturned
    /\ StrictVisible(last.segment) = {}
    /\ last.second_pass
    /\ Len(last.visible_points) \in 1..NumSamples

\* C2: every sample point the strict pass (buffered obstacles) finds visible is
\* found visible by the relaxed pass (unbuffered obstacles) on the same input.
C2_FallbackMonotone ==
    SamplerReturned =>
        LET segment_proj   == LineToPlanar(last.segment)
            store_proj     == ToPlanar(StorePoint)
            obstacles_proj == ObstaclesProj(obstacles)
        IN  Range(FirstPass(segment_proj, store_proj, obstacles_proj, NumSamples, 0))
              \subseteq
            Range(SecondPass(segment_proj, store_proj, obstacles_proj, NumSamples, 0))

\* C2 witness: a call in which the strict pass found visible samples and the
\* buffer alone blocked others
C2_Witness ==
    /\ SamplerReturned
    /\ StrictVisible(last.segment) # {}
    /\ StrictVisible(last.segment) # RelaxedVisible(last.segment)
    /\ ~last.second_pass

\* C3 (as claimed): two or more visible points give a sub-polyline of them,
\* exactly one gives no geometry and no error, none gives no geometry.
C3_Claimed ==
    SamplerReturned =>
        LET count == Len(last.visible_points)
        IN  /\ count >= 2 => (last.ret.kind = "LineString"
                               /\ last.ret.points = last.visible_points)
            /\ count = 1 => (last.ret.kind = "None" /\ last.err = "")
            /\ count = 0 => last.ret.kind = "None"

\* C4 (as claimed): the visible sub-geometry is no longer than the feature, and
\* as long only when every one of the NumSamples + 1 samples is visible.
C4_Claimed ==
    (SamplerReturned /\ last.ret.kind = "LineString") =>
        LET full == NumSamples * length(LineToPlanar(last.segment))
            sub  == length(last.ret.points)
        IN  /\ sub <= full
            /\ sub = full => Len(last.visible_points) = NumSamples + 1

----------------------------------------------------------------------------
(* Properties of the acceptance filters (filter_visible_segments)          *)

FilterReturned == last.op = "filter_visible_segments" /\ last.err = ""

\* the visible samples of the sampler of section 4.4: parameters i/n, strict
\* tolerance 0.1 m, relaxed pass when the strict pass finds nothing
SamplerVisible44(segment, n) ==
    LET strict  == {i \in 0..n : ~SightlineBlockedN(segment, i, n, BufferTraffic)}
        relaxed == {i \in 0..n : ~SightlineBlockedN(segment, i, n, 0)}
    IN  IF strict # {} THEN strict ELSE relaxed

\* C5 (as claimed): a feature is accepted, unchanged, iff at least one sample
\* point of the sampler result of section 4.4 is visible.
C5_Claimed ==
    (FilterReturned /\ last.num_samples >= 1) =>
        LET accepted(segment) == SamplerVisible44(segment, last.num_samples) # {}
        IN  last.ret = SelectSeq(last.nearby_segments, accepted)

\* the parameters <<numerator, denominator>> an engine tests on a segment
SampleParams_Traffic(num_samples) == {<<i, num_samples>> : i \in 0..num_samples}
SampleParams_Store(num_samples) ==
    {<<0, 1>>, <<1, 1>>} \cup {<<i, num_samples - 1>> : i \in 0..(num_samples - 1)}
SampleParams_Sidewalk == {<<i, NumSamples>> : i \in 0..NumSamples}

SameParam(s, t) == s[1] * t[2] = t[1] * s[2]
SameParams(S, T) ==
    /\ \A s \in S : \E t \in T : SameParam(s, t)
    /\ \A t \in T : \E s \in S : SameParam(s, t)

\* C6 (as claimed): for the same feature, store, blocking set and sample count
\* the acceptance engine and the truncation engine test the same parameters
\* i/n and agree, sample by sample, on which points are visible.
C6_Claimed ==
    (FilterReturned /\ last.num_samples = NumSamples) =>
        /\ SameParams(IF cls = "StoreVisibility"
                      THEN SampleParams_Store(NumSamples)
                      ELSE SampleParams_Traffic(NumSamples),
                      SampleParams_Sidewalk)
        /\ \A segment \in Range(last.nearby_segments) :
             LET truncation ==
                     is_segment_visible(segment, StorePoint, obstacles, NumSamples)
             IN  \A i \in 0..NumSamples :
                     is_point_visible(ScalePt(ToPlanar(StorePoint), NumSamples),
                                      SampleAt(segment, i), ObstaclesProj(obstacles),
                                      NumSamples)
                       <=> SampleAt(segment, i) \in Range(truncation.visible_points)

NoObstacles == obstacles.hasGeometry /\ obstacles.geometry = <<>>

\* C7 (as claimed): with an empty blocking set every sample is visible and the
\* truncated geometry is as long as the feature.
C7_Claimed ==
    (SamplerReturned /\ NoObstacles) =>
        /\ Len(last.visible_points) = NumSamples + 1
        /\ last.ret.kind = "LineString"
        /\ length(last.ret.points) = NumSamples * length(LineToPlanar(last.segment))

\* C7 (amended): with an empty blocking set every sample is visible, the
\* truncation engine returns the line through all NumSamples + 1 samples, which
\* is no longer than the feature and as long when the feature is straight; the
\* acceptance engines accept every feature unchanged.
C7_NoObstacle ==
    /\ (SamplerReturned /\ NoObstacles) =>
          /\ last.visible_points = [k \in 1..(NumSamples + 1) |->
                                       SampleAt(last.segment, k - 1)]
          /\ ~last.second_pass
          /\ last.ret = [kind |-> "LineString", points |-> last.visible_points]
          /\ length(last.ret.points) <= NumSamples * length(LineToPlanar(last.segment))
          /\ Len(last.segment) = 2 =>
                length(last.ret.points) = NumSamples * length(LineToPlanar(last.segment))
    /\ (FilterReturned /\ NoObstacles) => last.ret = last.nearby_segments

\* C7 witness: a straight feature sampled with an empty blocking set
C7_Witness ==
    /\ SamplerReturned
    /\ NoObstacles
    /\ Len(last.segment) = 2
    /\ last.ret.kind = "LineString"

----------------------------------------------------------------------------
(* Properties of the obstacle set *)

FetchReturned == last.op = "fetch_obstacles" /\ last.err = ""

\* C8 (as claimed): after a fetch every fetched obstacle is in exactly one of
\* blocking and ownBuilding, and in ownBuilding iff it contains the store.
C8_Claimed ==
    FetchReturned =>
        \A g \in Range(Val(fetched).raw) :
            LET inBlocking == g \in Range(obstacles.geometry)
                inOwn      == g \in Range(store_building.geometry)
            IN  /\ inBlocking # inOwn
                /\ inOwn <=> PolyContainsPoint(g, Val(fetched).store_point)

\* C9 (as claimed): on a StoreVisibility session with fetched obstacles the
\* blocking set holds no obstacle containing the current store location, and
\* holds obstacles of the most recent fetch only.
C9_Claimed ==
    (cls = "StoreVisibility" /\ ~IsNone(fetched)) =>
        /\ \A g \in Range(obstacles.geometry) : ~PolyContainsPoint(g, StorePoint)
        /\ Range(obstacles.geometry) \subseteq Range(Val(fetched).raw)

----------------------------------------------------------------------------
(* Properties of nearby_data *)

\* the squared planar distance of point p to the axis-parallel leg a-b
LegDist2(p, a, b) ==
    LET cx == Max2(Min2(a[1], b[1]), Min2(p[1], Max2(a[1], b[1])))
        cy == Max2(Min2(a[2], b[2]), Min2(p[2], Max2(a[2], b[2])))
    IN  Sq(p[1] - cx) + Sq(p[2] - cy)

\* the squared minimum planar distance of a geographic polyline to the store
MinDist2(line) ==
    LET planar == LineToPlanar(line)
        ds == {LegDist2(ToPlanar(StorePoint), planar[k], planar[k + 1]) :
                  k \in 1..(Len(line) - 1)}
    IN  CHOOSE d \in ds : \A e \in ds : d <= e

InRadius(row, radius) == radius >= 0 /\ MinDist2(row.geometry) <= Sq(radius)

NearbyReturned == last.op = "nearby_data" /\ last.err = ""

\* C10: nearby_data returns exactly the rows whose minimum planar distance to
\* the store is at most the radius (a row at exactly the radius is kept), in
\* the order of the loaded dataset.
C10_RadiusFilter ==
    NearbyReturned =>
        LET rows == Val(gdf).rows
            pos(row) == CHOOSE k \in 1..Len(rows) : rows[k] = row
        IN  /\ \A row \in Range(rows) :
                  row \in Range(last.ret) <=> InRadius(row, last.radius)
            /\ Range(last.ret) \subseteq Range(rows)
            /\ \A i, j \in 1..Len(last.ret) : i < j => pos(last.ret[i]) < pos(last.ret[j])

\* C10 witness: a call that keeps a row lying exactly at the radius and drops
\* a row beyond it
C10_Witness ==
    /\ NearbyReturned
    /\ last.radius > 0
    /\ \E row \in Range(last.ret) : MinDist2(row.geometry) = Sq(last.radius)
    /\ \E row \in Range(Val(gdf).rows) : row \notin Range(last.ret)

\* C11 (as claimed): nearby_data with a radius of 0 or less returns an empty
\* result, without an error, whatever the dataset and the store location.
C11_Claimed ==
    (last.op = "nearby_data" /\ last.radius <= 0 /\ ~IsNone(gdf)
        /\ ~IsNone(store_latitude))
      => (last.err = "" /\ last.ret = <<>>)

----------------------------------------------------------------------------
(* Properties of calculate_car_traffic *)

WeighReturned == last.op = "calculate_car_traffic" /\ last.err = ""

RECURSIVE SumOver(_, _, _)
\* the sum of term(rows[k]) for k = i..Len(rows)
SumOver(rows, term(_), i) ==
    IF i > Len(rows) THEN Q(0, 1)
    ELSE QAdd(term(rows[i]), SumOver(rows, term, i + 1))

\* C12 (as claimed): the score is the sum over the matches of
\* (trips_volume / max(trips_sample_count, 1e-6)) * 1.4.
C12_Claimed ==
    WeighReturned =>
        LET divisor(cnt) == IF QLess(cnt, Epsilon) THEN Epsilon ELSE cnt
            exposure(row) ==
                Reduce(row.trips_volume * 7 * divisor(row.trips_sample_count)[2],
                       5 * divisor(row.trips_sample_count)[1])
        IN  last.ret = SumOver(last.matched, exposure, 1)

\* C12 (amended): the score is the sum over the matches of
\* (trips_volume / d) * 1.4 where d is 1e-6 for a sample count of exactly 0 and
\* the record's own sample count otherwise; a match with count 0 contributes
\* trips_volume * 1400000, a finite number.
C12_ZeroReplaced ==
    WeighReturned =>
        LET exposure(row) ==
                IF row.trips_sample_count[1] = 0
                THEN Q(row.trips_volume * 1400000, 1)
                ELSE Reduce(row.trips_volume * 7 * row.trips_sample_count[2],
                            5 * row.trips_sample_count[1])
        IN  /\ last.ret = SumOver(last.matched, exposure, 1)
            /\ last.ret[2] > 0

\* C12 witness: a score with a matched record whose sample count is 0
C12_Witness ==
    /\ WeighReturned
    /\ \E k \in 1..Len(last.matched) :
          /\ last.matched[k].trips_sample_count[1] = 0
          /\ last.matched[k].trips_volume = 14
    /\ last.ret[1] >= 14 * 1400000

\* C13 (as claimed): when the loaded dataset lacks trips_volume or
\* trips_sample_count, calculate_car_traffic fails and returns no score, for
\* every visible_segments argument.
C13_Claimed ==
    (last.op = "calculate_car_traffic" /\ ~IsNone(gdf)
        /\ ~({"trips_volume", "trips_sample_count"} \subseteq Val(gdf).columns))
      => last.err = "ValueError"

----------------------------------------------------------------------------
(* Properties of calculate_visibility_score *)

ScoreReturned == last.op = "calculate_visibility_score" /\ last.err = ""

RECURSIVE LengthTimesDensity(_, _, _)
\* the sum of length(lines[k]) * densities[k] for k = i..Len(lines)
LengthTimesDensity(lines, densities, i) ==
    IF i > Len(lines) THEN 0
    ELSE length(lines[i]) * densities[i] + LengthTimesDensity(lines, densities, i + 1)

\* the sum over the visible sub-geometries of length * density / 10, in metres
\* (sample coordinates are at scale NumSamples, in units of 0.1 m)
PedestrianSum ==
    Reduce(LengthTimesDensity(last.visible_segments, last.densities, 1),
           100 * NumSamples)

\* C14 (as claimed): the score returned is the sum over the visible
\* sub-geometries of length * density(store) / 10, with no further adjustment.
C14_Claimed ==
    ScoreReturned =>
        /\ \A k \in 1..Len(last.queries) : last.queries[k] = StorePoint
        /\ last.ret = PedestrianSum

\* C14 (amended): every density lookup is made at the store location, and the
\* score returned is the sum over the visible sub-geometries of
\* length * density / 10 rounded to two decimals: a multiple of 0.01 at most
\* 0.005 away from the sum.
C14_RoundedSum ==
    ScoreReturned =>
        /\ Len(last.queries) = Len(last.visible_segments)
        /\ \A k \in 1..Len(last.queries) : last.queries[k] = StorePoint
        /\ 100 % last.ret[2] = 0
        /\ LET d == last.ret[1] * PedestrianSum[2] - PedestrianSum[1] * last.ret[2]
           IN  200 * (IF d < 0 THEN -d ELSE d) <= last.ret[2] * PedestrianSum[2]

\* C14 witness: a score over two visible sub-geometries that differs from the
\* exact sum
C14_Witness ==
    /\ ScoreReturned
    /\ Len(last.visible_segments) = 2
    /\ last.ret[1] > 0
    /\ last.ret # PedestrianSum

\* C15 (as claimed): a failed density lookup, whether a response other than
\* 200 or an exception, counts as density 0; the scoring call still returns.
C15_Claimed ==
    last.op = "calculate_visibility_score" =>
        /\ last.err # "RequestException"
        /\ last.err = "" =>
              \A k \in 1..Len(last.densities) :
                  last.script[k].status_code # 200 => last.densities[k] = 0

----------------------------------------------------------------------------
(* The scenario of a store at the planar origin, in proportion: a square   *)
(* obstacle of side s centred s/2 north of the store, an east-west line 2s *)
(* north of the store and the same line 2s south of it                     *)

StoreAtOrigin == ~IsNone(store_latitude) /\ StorePoint = SiteO

\* C16 (as claimed): with the store at the planar origin and the square as the
\* only obstacle fetched, the line north of the store is invisible and the
\* line south of it is visible over its full length.
C16_Claimed ==
    (StoreAtOrigin /\ cls # "StoreVisibility") =>
        /\ last.op = "fetch_obstacles" => last.err = ""
        /\ (last.op = "is_segment_visible" /\ last.segment = RoadNorth) =>
              (last.err = "" /\ last.ret.kind = "None")
        /\ (last.op = "is_segment_visible" /\ last.segment = RoadSouth) =>
              /\ last.err = ""
              /\ last.ret.kind = "LineString"
              /\ length(last.ret.points) = NumSamples * length(LineToPlanar(RoadSouth))
        /\ (last.op = "filter_visible_segments"
                /\ last.nearby_segments = <<RoadNorth, RoadSouth>>
                /\ last.num_samples = NumSamples) =>
              (last.err = "" /\ last.ret = <<RoadSouth>>)

----------------------------------------------------------------------------
(* Properties of filter_visible_segments *)

\* C17 (as claimed): filter_visible_segments with a sample count below 1 fails
\* with a parameter error; it returns no result and does not fail with a
\* division by zero.
C17_Claimed ==
    (last.op = "filter_visible_segments" /\ last.num_samples < 1
        /\ obstacles.hasGeometry)
      => last.err = "ValueError"

----------------------------------------------------------------------------
(* Frame of the sampling and weighing calls *)

ReadOnlyOps ==
    {"filter_visible_segments", "is_segment_visible", "calculate_car_traffic",
     "calculate_visibility_score"}

\* C18 (as claimed): a step of filter_visible_segments, is_segment_visible,
\* calculate_car_traffic or calculate_visibility_score leaves the store
\* location, the loaded dataset, the blocking set and the store building as
\* they were.
C18_Claimed ==
    [][last'.op \in ReadOnlyOps =>
          UNCHANGED <<store_latitude, store_longitude, gdf, obstacles,
                      store_building>>]_vars

----------------------------------------------------------------------------
(* The extent of the sub-geometry is_segment_visible returns *)

\* point p lies on the line through the given points
OnLine(p, points) ==
    \E k \in 1..(Len(points) - 1) : PtSegWithin(p, points[k], points[k + 1], 0)

\* C19 (as claimed): the vertices of the returned sub-geometry are the visible
\* sample points in the order of their parameters, and no sample point judged
\* not visible lies on the sub-geometry.
C19_Claimed ==
    (SamplerReturned /\ last.ret.kind = "LineString") =>
        /\ last.ret.points = last.visible_points
        /\ \A i \in 0..NumSamples :
              SampleAt(last.segment, i) \notin Range(last.visible_points)
                => ~OnLine(SampleAt(last.segment, i), last.ret.points)

----------------------------------------------------------------------------
(* The output of the acceptance filters *)

RECURSIVE IsSubsequence(_, _)
\* r is s with some of its entries left out
IsSubsequence(r, s) ==
    IF r = <<>> THEN TRUE
    ELSE IF s = <<>> THEN FALSE
    ELSE IF Head(r) = Head(s) /\ IsSubsequence(Tail(r), Tail(s)) THEN TRUE
    ELSE IsSubsequence(r, Tail(s))

\* C20: the output of filter_visible_segments holds each entry of
\* nearby_segments at most once, in the order of the input.
C20_OnceInOrder ==
    FilterReturned => IsSubsequence(last.ret, last.nearby_segments)

\* C20 witness: a filter call on several segments that accepts some and drops
\* others
C20_Witness ==
    /\ FilterReturned
    /\ Len(last.nearby_segments) >= 2
    /\ Len(last.ret) >= 1
    /\ Len(last.ret) < Len(last.nearby_segments)

----------------------------------------------------------------------------
(* The matches calculate_car_traffic weighs *)

\* the points with whole coordinates on the axis-parallel leg a-b
LegPoints(a, b) ==
    {<<x, y>> : x \in Min2(a[1], b[1])..Max2(a[1], b[1]),
                y \in Min2(a[2], b[2])..Max2(a[2], b[2])}
LinePoints(line) ==
    UNION {LegPoints(line[k], line[k + 1]) : k \in 1..(Len(line) - 1)}

\* two lines have a point in common
SharePoint(l, m) == LinePoints(l) \cap LinePoints(m) # {}

\* the number of entries of seq equal to x
Occurrences(seq, x) == Cardinality({k \in 1..Len(seq) : seq[k] = x})

\* the calls of calculate_car_traffic that reached the join, or returned 0 for
\* an empty visible set, on a loaded dataset
JoinReturned ==
    WeighReturned /\ ~IsNone(last.visible_segments) /\ ~IsNone(gdf)

\* C21: calculate_car_traffic adds one contribution per pair of a dataset row
\* and a visible feature that have a point in common: a row that meets k
\* visible features is matched and counted k times, and a row that only
\* touches a visible feature is counted though it is not among the visible
\* features.
C21_PerPair ==
    JoinReturned =>
        LET visible == Val(last.visible_segments)
            pairs(row) ==
                Cardinality({j \in 1..Len(visible) :
                                SharePoint(row.geometry, visible[j])})
            exposure(row) ==
                LET d == IF row.trips_sample_count[1] = 0 THEN Epsilon
                         ELSE row.trips_sample_count
                IN  Reduce(pairs(row) * row.trips_volume * 7 * d[2], 5 * d[1])
        IN  /\ \A row \in Range(Val(gdf).rows) :
                  Occurrences(last.matched, row) = pairs(row)
            /\ last.ret = SumOver(Val(gdf).rows, exposure, 1)

\* C21 witness: a score in which a row is counted twice and a row that is not
\* among the visible features is counted
C21_Witness ==
    /\ JoinReturned
    /\ \E row \in Range(Val(gdf).rows) : Occurrences(last.matched, row) = 2
    /\ \E row \in Range(last.matched) :
          row.geometry \notin Range(Val(last.visible_segments))
    /\ last.ret[1] > 0

----------------------------------------------------------------------------
(* The dataset a session holds across read_data calls *)

\* the call described by l is a read_data that loaded a dataset
ReadSucceeded(l) ==
    /\ l.op = "read_data"
    /\ l.err = ""
    /\ cls = "StoreVisibility" => ~IsNone(l.ret)

\* the frames a read_data can load
LoadableFrames ==
    {LoadedFrame(csv, target_state) : csv \in CsvFiles, target_state \in States}

\* C22 (as claimed): nearby_data raises only when no read_data has succeeded on
\* the session, that is when the session holds no dataset.
C22_Claimed ==
    (last.op = "nearby_data" /\ last.err = "ValueError") => IsNone(gdf)

\* C22 (amended): a read_data that fails or finds no row of the state leaves
\* the dataset as it was; only a read_data that succeeds changes it, to the
\* frame it loaded; and nearby_data raises exactly when the session holds no
\* dataset or no store coordinates.
C22_LastSuccessfulRead ==
    [][/\ (last'.op = "read_data" /\ ~ReadSucceeded(last')) => gdf' = gdf
       /\ ReadSucceeded(last') =>
             (~IsNone(gdf') /\ Val(gdf') \in LoadableFrames /\ Val(gdf').rows # <<>>)
       /\ gdf' # gdf => ReadSucceeded(last')
       /\ last'.op = "nearby_data" =>
             (last'.err = "ValueError"
                <=> (IsNone(gdf') \/ IsNone(store_latitude') \/ IsNone(store_longitude')))
      ]_vars

\* C22 witness: a read_data that failed on a session that holds a dataset
C22_Witness ==
    /\ last.op = "read_data"
    /\ last.err = "ValueError"
    /\ ~IsNone(gdf)

====
